---- MODULE Spec2Model ----
(***************************************************************************)
(* State-machine model of tborg/stackernews, package hackernews:           *)
(* the front-page scrape (FrontPage.parse, Article.store), the comment     *)
(* thread reconstruction (CommentPage.parse, Comment.store,                *)
(* Comment.addReply) writing the closure table hackernews.threads, and     *)
(* the scheduler of Poll (capacity-1 snapshots channel, time.Tick          *)
(* limiter).                                                               *)
(*                                                                         *)
(* The database statements are the steps: Comment.store is two (comment    *)
(* row, self-edge), Comment.addReply one (INSERT ... SELECT).  A failed    *)
(* statement ends the process (log.Fatal).  Rows of a fetched page are     *)
(* drawn one by one as Each hands them over.                               *)
(*                                                                         *)
(* Spec is the whole of Poll.  Three specifications of the same actions    *)
(* keep the state space small: SpecSched (both goroutines, channel and     *)
(* tickers, short pages), SpecFront (the first front page, every kind of   *)
(* row) and SpecScan (the comments loop from the state ScanInit, comment   *)
(* pages of every shape).                                                  *)
(***************************************************************************)
EXTENDS Integers, Sequences, FiniteSets, TLC

(* ---------------------------- bounds ----------------------------------- *)
\* the --throttle flag, in clock units
Throttle == 2
\* the --interval flag, in clock units
Interval == 3
\* SpecSched and Spec: snapshots taken in one run
MaxSnapshots == 2
\* SpecSched and Spec: rows inserted into hackernews.articles in one run
MaxArticles == 1
\* SpecSched and Spec: articles appended to one FrontPage
MaxListed == 1
\* SpecSched, SpecFront and Spec: comment rows stored in one run
MaxStored == 1
\* SpecSched, SpecFront and Spec: largest indentation width of a comment row
MaxIndent == 1
\* SpecSched and Spec: last instant of the discrete clock
MaxTime == 4
\* SpecFront: rows inserted into hackernews.articles in one run
FrontArticles == 2
\* SpecFront: articles appended to one FrontPage
FrontListed == 2
\* SpecScan: comment rows stored in one run
MaxComments == 4
\* SpecScan: largest indentation width of a comment row
MaxOffset == 2
\* SpecScan and SpecFront: comment pages fetched in one run
MaxFetches == 2

(* ---------------------- program constants ------------------------------ *)
SPACER == "spacer"
TITLE_ROW == "athing"
\* make(chan *FrontPage, 1)
ChanCap == 1
\* parseCommentHead wants exactly this many links in span.comhead
HeadLinks == 2

\* the two goroutines of Poll: main (first NewFrontPage, then the comments
\* loop) and the go func() snapshot loop
Procs == {"main", "poller"}

\* numbers of links a comment head may carry in the fetched markup
LinkCounts == {HeadLinks, HeadLinks + 1}
\* values of the href attribute parseCommentHead reads from the head: a
\* permalink with a numeric id, one whose id is not a number, and one
\* without "="
Hrefs == {"item?id=41", "item?id=abc", "item"}
\* the heads of comment rows: with a wrong number of links the href is not
\* read, and one href stands for all
Heads ==
  {h \in [links : LinkCounts, href : Hrefs] :
     h.links # HeadLinks => h.href = "item?id=41"}
\* SpecScan: the heads of its comment rows, every outcome of
\* parseCommentHead but the failed Atoi, which leaves the same Comment as a
\* wrong number of links
ScanHeads == {h \in Heads : h.href # "item?id=abc"}
\* texts of the ".title a" element of a title row; "" when the row holds none
Titles == {"title", ""}
\* hrefs of the last link of a td.subtext; "" when the td holds no link
CommentsLinks == {"item", ""}
\* values of the class attribute of a main-table row
RowClasses == {SPACER, TITLE_ROW, "", "morespace"}

VARIABLES
  db_snapshots,   \* hackernews.snapshots: number of rows, ids 1..n
  db_articles,    \* hackernews.articles: sequence of rows, id = index
  db_comments,    \* hackernews.comments: sequence of rows, id = index
  db_threads,     \* hackernews.threads: sequence of rows, id = index
  heap,           \* the *Article objects allocated by FrontPage.next
  f,              \* per goroutine: the FrontPage NewFrontPage is building
  a,              \* per goroutine: the article FrontPage.parse accumulates
  pc,             \* per goroutine: position in Poll / NewFrontPage
  snapshots,      \* the snapshots channel (buffer contents)
  fp,             \* comments loop: the FrontPage received
  ai,             \* comments loop: index into fp.Articles
  cp,             \* comments loop: the CommentPage of the current article
  c,              \* comments loop: the Comment of the row being processed
  rows,           \* comments loop: the comment rows Each has handed over
  replyTo,        \* per stored comment: the comment addReply was called on
  now,            \* discrete clock
  limiter,        \* time.Tick(throttle): next firing time and buffer
  ticker,         \* time.Tick(interval): next firing time and buffer
  fetchTimes,     \* clock value at each comment-page fetch
  halted          \* log.Fatal or a panic has ended the process

vars == <<db_snapshots, db_articles, db_comments, db_threads, heap, f, a,
          pc, snapshots, fp, ai, cp, c, rows, replyTo, now, limiter,
          ticker, fetchTimes, halted>>

dbvars == <<db_snapshots, db_articles, db_comments, db_threads>>
prodvars == <<heap, f, a>>
consvars == <<fp, ai, cp, c, rows, replyTo, fetchTimes>>
timevars == <<now, limiter, ticker>>

(* ----------------------------- values ---------------------------------- *)
\* &FrontPage{}
NewFP == [SnapshotID |-> 0, Articles |-> <<>>]
\* FrontPage.next: &Article{SnapshotID: f.SnapshotID}
NewArticle(sid) == [ID |-> 0, SnapshotID |-> sid, Title |-> "", CommentsLink |-> ""]
\* &CommentPage{}
NewCommentPage == [Comments |-> <<>>, thread |-> <<>>, depth |-> 0]
\* the zero Comment
NoComment == [ID |-> 0, CommentID |-> 0, ArticleID |-> 0, offset |-> 0]
\* a time.Tick channel that does not exist yet
NoTicker == [next |-> 0, buf |-> 0]

\* time.Tick(d) called at instant t
NewTicker(t, d) == [next |-> t + d, buf |-> 0]

\* the runtime's ticker at instant t: a non-blocking send into the
\* one-slot channel; the tick is dropped when the slot is taken
Fire(tk, t, d) ==
  IF tk.next # 0 /\ tk.next = t
  THEN [next |-> t + d, buf |-> 1]
  ELSE tk

(* ------------------------------ Init ----------------------------------- *)
\* the process at the first statement of Poll after sql.Open
Init ==
  /\ db_snapshots = 0
  /\ db_articles = <<>>
  /\ db_comments = <<>>
  /\ db_threads = <<>>
  /\ heap = <<>>
  /\ f = [p \in Procs |-> NewFP]
  /\ a = [p \in Procs |-> 0]
  /\ pc = [p \in Procs |-> IF p = "main" THEN "fp_store" ELSE "idle"]
  /\ snapshots = <<>>
  /\ fp = NewFP
  /\ ai = 0
  /\ cp = NewCommentPage
  /\ c = NoComment
  /\ rows = <<>>
  /\ replyTo = <<>>
  /\ now = 0
  /\ limiter = NoTicker
  /\ ticker = NoTicker
  /\ fetchTimes = <<>>
  /\ halted = FALSE

(* ------------------------ NewFrontPage --------------------------------- *)
\* the pc a goroutine continues at when NewFrontPage returns
AfterSend(p) == IF p = "main" THEN "go" ELSE "wait"

\* NewFrontPage: f := &FrontPage{}; f.store(db) inserts the snapshot row
\* (RETURNING id into f.SnapshotID)
FPStore(p, maxSnapshots) ==
  /\ ~halted
  /\ pc[p] = "fp_store"
  /\ db_snapshots < maxSnapshots
  /\ db_snapshots' = db_snapshots + 1
  /\ f' = [f EXCEPT ![p] = [SnapshotID |-> db_snapshots + 1, Articles |-> <<>>]]
  /\ pc' = [pc EXCEPT ![p] = "fp_fetch"]
  /\ UNCHANGED <<db_articles, db_comments, db_threads, heap, a, snapshots>>
  /\ UNCHANGED <<consvars, timevars, halted>>

\* f.parse up to the first row: goquery.NewDocument fetches the front page
\* and a := f.next() makes the first article
FPFetch(p) ==
  /\ ~halted
  /\ pc[p] = "fp_fetch"
  /\ heap' = Append(heap, NewArticle(f[p].SnapshotID))
  /\ a' = [a EXCEPT ![p] = Len(heap) + 1]
  /\ pc' = [pc EXCEPT ![p] = "fp_parse"]
  /\ UNCHANGED <<dbvars, f, snapshots, consvars, timevars, halted>>

\* Article.store: the row inserted for article object x
ArticleRow(x) ==
  [title |-> x.Title, comments_link |-> x.CommentsLink, snapshot_id |-> x.SnapshotID]

\* case SPACER: a.store(db); a = f.next()
RowSpacer(p, maxArticles) ==
  /\ ~halted
  /\ pc[p] = "fp_parse"
  /\ Len(db_articles) < maxArticles
  /\ db_articles' = Append(db_articles, ArticleRow(heap[a[p]]))
  /\ heap' = Append([heap EXCEPT ![a[p]].ID = Len(db_articles) + 1],
                    NewArticle(f[p].SnapshotID))
  /\ a' = [a EXCEPT ![p] = Len(heap) + 1]
  /\ UNCHANGED <<db_snapshots, db_comments, db_threads, f, pc, snapshots>>
  /\ UNCHANGED <<consvars, timevars, halted>>

\* case TITLE_ROW: a.parseTitleRow(s) sets a.Title to the text of ".title a"
RowTitle(p) ==
  /\ ~halted
  /\ pc[p] = "fp_parse"
  /\ \E title \in Titles : heap' = [heap EXCEPT ![a[p]].Title = title]
  /\ UNCHANGED <<dbvars, f, a, pc, snapshots, consvars, timevars, halted>>

\* case "", the row holds a td.subtext: parseSubtextRow sets a.CommentsLink
\* to the href of the td's last link and returns true, and the article is
\* appended to f.Articles
RowSubtext(p, maxListed) ==
  /\ ~halted
  /\ pc[p] = "fp_parse"
  /\ Len(f[p].Articles) < maxListed
  /\ \E link \in CommentsLinks : heap' = [heap EXCEPT ![a[p]].CommentsLink = link]
  /\ f' = [f EXCEPT ![p].Articles = Append(f[p].Articles, a[p])]
  /\ UNCHANGED <<dbvars, a, pc, snapshots, consvars, timevars, halted>>

\* case "", the row holds no td.subtext: parseSubtextRow returns false on the
\* empty selection and nothing is set
RowUntagged(p) ==
  /\ ~halted
  /\ pc[p] = "fp_parse"
  /\ UNCHANGED vars

\* a row of any other class matches no case of the switch
RowIgnored(p) ==
  /\ ~halted
  /\ pc[p] = "fp_parse"
  /\ \E cls \in RowClasses \ {SPACER, TITLE_ROW, ""} : UNCHANGED vars

\* Each has run out of rows: f.parse returns f
FPDone(p) ==
  /\ ~halted
  /\ pc[p] = "fp_parse"
  /\ pc' = [pc EXCEPT ![p] = "fp_send"]
  /\ UNCHANGED <<dbvars, prodvars, snapshots, consvars, timevars, halted>>

\* a send that gives up when the buffer is full
\* (select { case snapshots <- f: default: }): the snapshot is dropped
FPSendDropping(p) ==
  /\ ~halted
  /\ pc[p] = "fp_send"
  /\ snapshots' = IF Len(snapshots) < ChanCap THEN Append(snapshots, f[p]) ELSE snapshots
  /\ pc' = [pc EXCEPT ![p] = AfterSend(p)]
  /\ UNCHANGED <<dbvars, prodvars, consvars, timevars, halted>>

\* snapshots <- f.parse(db): the send completes only while the buffer has room
FPSend(p) ==
  /\ ~halted
  /\ pc[p] = "fp_send"
  /\ Len(snapshots) < ChanCap
  /\ snapshots' = Append(snapshots, f[p])
  /\ pc' = [pc EXCEPT ![p] = AfterSend(p)]
  /\ UNCHANGED <<dbvars, prodvars, consvars, timevars, halted>>

\* a failed insert (FrontPage.store, Article.store) or a failed front-page
\* fetch ends in log.Fatal
FPFatal(p) ==
  /\ ~halted
  /\ pc[p] \in {"fp_store", "fp_fetch", "fp_parse"}
  /\ halted' = TRUE
  /\ UNCHANGED <<dbvars, prodvars, pc, snapshots, consvars, timevars>>

(* ------------------------------ Poll ----------------------------------- *)
\* main after the first NewFrontPage: go func(){...}() starts the snapshot
\* goroutine
Go ==
  /\ ~halted
  /\ pc["main"] = "go"
  /\ pc' = [pc EXCEPT !["main"] = "limiter", !["poller"] = "start"]
  /\ UNCHANGED <<dbvars, prodvars, snapshots, consvars, timevars, halted>>

\* limiter := time.Tick(throttle)
NewLimiter ==
  /\ ~halted
  /\ pc["main"] = "limiter"
  /\ limiter' = NewTicker(now, Throttle)
  /\ pc' = [pc EXCEPT !["main"] = "recv"]
  /\ UNCHANGED <<dbvars, prodvars, snapshots, consvars, now, ticker, halted>>

\* the goroutine evaluates time.Tick(interval)
PollerStart ==
  /\ ~halted
  /\ pc["poller"] = "start"
  /\ ticker' = NewTicker(now, Interval)
  /\ pc' = [pc EXCEPT !["poller"] = "wait"]
  /\ UNCHANGED <<dbvars, prodvars, snapshots, consvars, now, limiter, halted>>

\* for _ = range time.Tick(interval): one tick received
PollerTick ==
  /\ ~halted
  /\ pc["poller"] = "wait"
  /\ ticker.buf = 1
  /\ ticker' = [ticker EXCEPT !.buf = 0]
  /\ pc' = [pc EXCEPT !["poller"] = "fp_store"]
  /\ UNCHANGED <<dbvars, prodvars, snapshots, consvars, now, limiter, halted>>

\* time passes; the runtime fires the tickers that are due
Advance(maxTime) ==
  /\ ~halted
  /\ now < maxTime
  /\ now' = now + 1
  /\ limiter' = Fire(limiter, now + 1, Throttle)
  /\ ticker' = Fire(ticker, now + 1, Interval)
  /\ UNCHANGED <<dbvars, prodvars, pc, snapshots, consvars, halted>>

\* for fp := range snapshots: one FrontPage received
Recv ==
  /\ ~halted
  /\ pc["main"] = "recv"
  /\ Len(snapshots) > 0
  /\ fp' = Head(snapshots)
  /\ snapshots' = Tail(snapshots)
  /\ ai' = 1
  /\ pc' = [pc EXCEPT !["main"] = "next"]
  /\ UNCHANGED <<dbvars, prodvars, cp, c, rows, replyTo, fetchTimes, timevars, halted>>

\* for _, a := range fp.Articles has no article left
ArticlesDone ==
  /\ ~halted
  /\ pc["main"] = "next"
  /\ ai > Len(fp.Articles)
  /\ pc' = [pc EXCEPT !["main"] = "recv"]
  /\ UNCHANGED <<dbvars, prodvars, snapshots, consvars, timevars, halted>>

\* the comments loop with one CommentPage for all articles (cp made before
\* the range instead of inside it): the path stack survives from one
\* article to the next
FetchCommentsKeepingPage ==
  /\ ~halted
  /\ pc["main"] = "fetch"
  /\ fetchTimes' = Append(fetchTimes, now)
  /\ rows' = <<>>
  /\ pc' = [pc EXCEPT !["main"] = "row"]
  /\ UNCHANGED <<dbvars, prodvars, snapshots, fp, ai, cp, c, replyTo, timevars, halted>>

\* <-limiter: the comments loop takes the buffered tick
AwaitLimiter ==
  /\ ~halted
  /\ pc["main"] = "next"
  /\ ai <= Len(fp.Articles)
  /\ limiter.buf = 1
  /\ limiter' = [limiter EXCEPT !.buf = 0]
  /\ pc' = [pc EXCEPT !["main"] = "fetch"]
  /\ UNCHANGED <<dbvars, prodvars, snapshots, consvars, now, ticker, halted>>

\* cp := &CommentPage{}; cp.parse sends the request for the comment page
FetchComments ==
  /\ ~halted
  /\ pc["main"] = "fetch"
  /\ fetchTimes' = Append(fetchTimes, now)
  /\ cp' = NewCommentPage
  /\ rows' = <<>>
  /\ pc' = [pc EXCEPT !["main"] = "row"]
  /\ UNCHANGED <<dbvars, prodvars, snapshots, fp, ai, c, replyTo, timevars, halted>>

(* ------------------------ CommentPage.parse ---------------------------- *)
\* the comment rows a fetched page may hold
CommentRows(maxOffset, heads) ==
  {[offset |-> o, links |-> h.links, href |-> h.href] :
     o \in 0..maxOffset, h \in heads}

\* strings.Split(_id, "=") on the hrefs of Hrefs
SplitEq(href) ==
  CASE href = "item?id=41" -> <<"item?id", "41">>
    [] href = "item?id=abc" -> <<"item?id", "abc">>
    [] href = "item" -> <<"item">>

\* strconv.Atoi on the id parts of Hrefs
Atoi(s) ==
  IF s = "41" THEN [err |-> FALSE, n |-> 41] ELSE [err |-> TRUE, n |-> 0]

\* parseCommentHead: the ID it leaves in c, whether it returns an error and
\* whether it panics.  With a wrong number of links it returns its error
\* before touching c; strings.Split(_id, "=")[1] panics (index out of range)
\* on an href without "="; when Atoi fails it returns the error and c.ID
\* stays 0
parseCommentHead(row) ==
  IF row.links # HeadLinks
  THEN [panic |-> FALSE, err |-> TRUE, ID |-> 0]
  ELSE LET parts == SplitEq(row.href) IN
       IF Len(parts) < 2
       THEN [panic |-> TRUE, err |-> FALSE, ID |-> 0]
       ELSE LET id == Atoi(parts[2]) IN
            IF id.err
            THEN [panic |-> FALSE, err |-> TRUE, ID |-> 0]
            ELSE [panic |-> FALSE, err |-> FALSE, ID |-> id.n]

\* c := &Comment{ArticleID: a.ID}; parseIndent; parseCommentHead (its error
\* is dropped by the caller); parseCommentBody
ParsedComment(row, art) ==
  [ID |-> parseCommentHead(row).ID, CommentID |-> 0, ArticleID |-> art.ID,
   offset |-> row.offset]

\* Comment.store, first statement: the row inserted into hackernews.comments
CommentRow(x) == [comment_id |-> x.CommentID, article_id |-> x.ArticleID]

\* hackernews.comments.article_id REFERENCES hackernews.articles (id)
ArticleExists(id) == id \in 1..Len(db_articles)

\* one step of Each up to the first insert of c.store: the row is parsed and
\* the comment row inserted (RETURNING id into c.ID); a panic in
\* parseCommentHead ends the process before anything is stored, and an
\* insert that breaks the foreign key fails and ends in log.Fatal
StoreComment(maxComments, maxOffset, heads) ==
  /\ ~halted
  /\ pc["main"] = "row"
  /\ Len(db_comments) < maxComments
  /\ \E row \in CommentRows(maxOffset, heads) :
       LET x == ParsedComment(row, heap[fp.Articles[ai]]) IN
       IF ~parseCommentHead(row).panic /\ ArticleExists(x.ArticleID)
       THEN /\ db_comments' = Append(db_comments, CommentRow(x))
            /\ c' = [x EXCEPT !.ID = Len(db_comments) + 1]
            /\ rows' = Append(rows, row)
            /\ pc' = [pc EXCEPT !["main"] = "selfedge"]
            /\ UNCHANGED halted
       ELSE /\ halted' = TRUE
            /\ UNCHANGED <<db_comments, c, rows, pc>>
  /\ UNCHANGED <<db_snapshots, db_articles, db_threads, prodvars, snapshots>>
  /\ UNCHANGED <<fp, ai, cp, replyTo, fetchTimes, timevars>>

\* a self-edge written one level too deep: VALUES ($1, $1, 1)
SelfEdgeDepthOne(id) == [ancestor |-> id, descendant |-> id, depth |-> 1]

\* Comment.store, second statement: VALUES ($1, $1, 0)
SelfEdge(id) == [ancestor |-> id, descendant |-> id, depth |-> 0]

\* the second insert of c.store
StoreSelfEdge ==
  /\ ~halted
  /\ pc["main"] = "selfedge"
  /\ db_threads' = Append(db_threads, SelfEdge(c.ID))
  /\ pc' = [pc EXCEPT !["main"] = "thread"]
  /\ UNCHANGED <<db_snapshots, db_articles, db_comments, prodvars, snapshots>>
  /\ UNCHANGED <<consvars, timevars, halted>>

\* the loop breaking on thread[i].offset <= c.offset: an equal offset is
\* taken for a parent
RECURSIVE PopIndexLE(_, _, _)
PopIndexLE(thread, i, off) ==
  IF i < 0 THEN i
  ELSE IF thread[i + 1].offset <= off THEN i
  ELSE PopIndexLE(thread, i - 1, off)

\* for i = cp.depth - 1; i >= 0; i -= 1 { if cp.thread[i].offset < c.offset
\* { break } }: the value of i after the loop (Go indices, from 0)
RECURSIVE PopIndex(_, _, _)
PopIndex(thread, i, off) ==
  IF i < 0 THEN i
  ELSE IF thread[i + 1].offset < off THEN i
  ELSE PopIndex(thread, i - 1, off)

\* addReply storing only the edge from the parent itself (an adjacency
\* list instead of the closure)
AddReplyRowsParentOnly(tbl, parent, child) ==
  <<[ancestor |-> parent, descendant |-> child, depth |-> 1]>>

\* addReply selecting depth instead of depth + 1
AddReplyRowsSameDepth(tbl, parent, child) ==
  LET sel == SelectSeq(tbl, LAMBDA t : t.descendant = parent) IN
  [k \in 1..Len(sel) |->
     [ancestor |-> sel[k].ancestor, descendant |-> child, depth |-> sel[k].depth]]

\* addReply inserting only the row its Scan reads, the first of the batch
AddReplyRowsFirstOnly(tbl, parent, child) ==
  LET sel == SelectSeq(tbl, LAMBDA t : t.descendant = parent) IN
  [k \in 1..(IF Len(sel) = 0 THEN 0 ELSE 1) |->
     [ancestor |-> sel[k].ancestor, descendant |-> child, depth |-> sel[k].depth + 1]]

\* Comment.addReply: the rows of INSERT ... SELECT ancestor, child,
\* depth + 1 FROM threads WHERE descendant = parent, in table order
AddReplyRows(tbl, parent, child) ==
  LET sel == SelectSeq(tbl, LAMBDA t : t.descendant = parent) IN
  [k \in 1..Len(sel) |->
     [ancestor |-> sel[k].ancestor, descendant |-> child, depth |-> sel[k].depth + 1]]

\* append(cp.thread, c) with nothing cut off the stack
PushedUncut(thread, depth, x) == Append(thread, x)

\* cp.thread after append(cp.thread[:i+1], c)
Pushed(thread, depth, x) ==
  Append(SubSeq(thread, 1, PopIndex(thread, depth - 1, x.offset) + 1), x)

\* the rest of the Each step: the stack is cut and c pushed, addReply runs on
\* the entry below c when there is one, c is appended to cp.Comments.
\* addReply's Scan of an INSERT that returned no row is sql.ErrNoRows and
\* ends in log.Fatal
Thread ==
  /\ ~halted
  /\ pc["main"] = "thread"
  /\ LET th == Pushed(cp.thread, cp.depth, c)
         d == Len(th)
         new == IF d > 1 THEN AddReplyRows(db_threads, th[d - 1].ID, c.ID) ELSE <<>>
     IN IF d > 1 /\ new = <<>>
        THEN /\ halted' = TRUE
             /\ UNCHANGED <<db_threads, cp, replyTo, pc>>
        ELSE /\ db_threads' = db_threads \o new
             /\ cp' = [Comments |-> Append(cp.Comments, c), thread |-> th, depth |-> d]
             /\ replyTo' = Append(replyTo, IF d > 1 THEN th[d - 1].ID ELSE 0)
             /\ pc' = [pc EXCEPT !["main"] = "row"]
             /\ UNCHANGED halted
  /\ UNCHANGED <<db_snapshots, db_articles, db_comments, prodvars, snapshots>>
  /\ UNCHANGED <<fp, ai, c, rows, fetchTimes, timevars>>

\* Each has run out of comment rows: cp.parse returns, next article
CommentsDone ==
  /\ ~halted
  /\ pc["main"] = "row"
  /\ ai' = ai + 1
  /\ pc' = [pc EXCEPT !["main"] = "next"]
  /\ UNCHANGED <<dbvars, prodvars, snapshots, fp, cp, c, rows, replyTo>>
  /\ UNCHANGED <<fetchTimes, timevars, halted>>

\* a failed insert in Comment.store or Comment.addReply ends in log.Fatal
CommentFatal ==
  /\ ~halted
  /\ pc["main"] \in {"row", "selfedge", "thread"}
  /\ pc["main"] = "thread" => Len(Pushed(cp.thread, cp.depth, c)) > 1
  /\ halted' = TRUE
  /\ UNCHANGED <<dbvars, prodvars, pc, snapshots, consvars, timevars>>

(* --------------------------- specification ----------------------------- *)
\* the whole of Poll: both goroutines, the channel and the two tickers
Next ==
  \/ \E p \in Procs : FPStore(p, MaxSnapshots)
  \/ \E p \in Procs : FPFetch(p)
  \/ \E p \in Procs : RowSpacer(p, MaxArticles)
  \/ \E p \in Procs : RowTitle(p)
  \/ \E p \in Procs : RowSubtext(p, MaxListed)
  \/ \E p \in Procs : RowUntagged(p)
  \/ \E p \in Procs : RowIgnored(p)
  \/ \E p \in Procs : FPDone(p)
  \/ \E p \in Procs : FPSend(p)
  \/ \E p \in Procs : FPFatal(p)
  \/ Go
  \/ NewLimiter
  \/ PollerStart
  \/ PollerTick
  \/ Advance(MaxTime)
  \/ Recv
  \/ ArticlesDone
  \/ AwaitLimiter
  \/ FetchComments
  \/ StoreComment(MaxStored, MaxIndent, Heads)
  \/ StoreSelfEdge
  \/ Thread
  \/ CommentsDone
  \/ CommentFatal

Spec == Init /\ [][Next]_vars

\* the scheduler of Poll: both goroutines, the channel and the two tickers,
\* on front pages made of subtext and spacer rows
NextSched ==
  \/ \E p \in Procs : FPStore(p, MaxSnapshots)
  \/ \E p \in Procs : FPFetch(p)
  \/ \E p \in Procs : RowSpacer(p, MaxArticles)
  \/ \E p \in Procs : RowSubtext(p, MaxListed)
  \/ \E p \in Procs : FPDone(p)
  \/ \E p \in Procs : FPSend(p)
  \/ Go
  \/ NewLimiter
  \/ PollerStart
  \/ PollerTick
  \/ Advance(MaxTime)
  \/ Recv
  \/ ArticlesDone
  \/ AwaitLimiter
  \/ FetchComments
  \/ StoreComment(MaxStored, MaxIndent, Heads)
  \/ StoreSelfEdge
  \/ Thread
  \/ CommentsDone

SpecSched == Init /\ [][NextSched]_vars

\* time passes while the comments loop is blocked on <-limiter
AdvanceWaiting(maxTime) ==
  /\ pc["main"] = "next"
  /\ ai <= Len(fp.Articles)
  /\ limiter.buf = 0
  /\ Advance(maxTime)

\* the front page: the first NewFrontPage of Poll on pages of every kind of
\* row, and the comments loop walking its articles
NextFront ==
  \/ \E p \in Procs : FPStore(p, MaxSnapshots)
  \/ \E p \in Procs : FPFetch(p)
  \/ \E p \in Procs : RowSpacer(p, FrontArticles)
  \/ \E p \in Procs : RowTitle(p)
  \/ \E p \in Procs : RowSubtext(p, FrontListed)
  \/ \E p \in Procs : RowUntagged(p)
  \/ \E p \in Procs : RowIgnored(p)
  \/ \E p \in Procs : FPDone(p)
  \/ \E p \in Procs : FPSend(p)
  \/ \E p \in Procs : FPFatal(p)
  \/ Go
  \/ NewLimiter
  \/ AdvanceWaiting(MaxFetches * Throttle)
  \/ Recv
  \/ ArticlesDone
  \/ AwaitLimiter
  \/ FetchComments
  \/ StoreComment(MaxStored, MaxIndent, Heads)
  \/ StoreSelfEdge
  \/ Thread
  \/ CommentsDone
  \/ CommentFatal

SpecFront == Init /\ [][NextFront]_vars

\* an article parsed from a title row, a subtext row and a spacer row
ListedArticle(id, sid) ==
  [ID |-> id, SnapshotID |-> sid, Title |-> "title", CommentsLink |-> "item"]

\* The state Poll is in when two snapshots of one article each (rows: title,
\* subtext, spacer) have been taken, the first by main and the second by the
\* snapshot goroutine on its first tick, and the comments loop has received
\* the first and fetched nothing yet.  Both tickers were created at instant 0.
ScanInit ==
  /\ db_snapshots = 2
  /\ db_articles = <<ArticleRow(ListedArticle(1, 1)), ArticleRow(ListedArticle(2, 2))>>
  /\ db_comments = <<>>
  /\ db_threads = <<>>
  /\ heap = <<ListedArticle(1, 1), NewArticle(1), ListedArticle(2, 2), NewArticle(2)>>
  /\ f = [p \in Procs |-> IF p = "main"
                          THEN [SnapshotID |-> 1, Articles |-> <<1>>]
                          ELSE [SnapshotID |-> 2, Articles |-> <<3>>]]
  /\ a = [p \in Procs |-> IF p = "main" THEN 2 ELSE 4]
  /\ pc = [p \in Procs |-> IF p = "main" THEN "next" ELSE "wait"]
  /\ snapshots = <<[SnapshotID |-> 2, Articles |-> <<3>>]>>
  /\ fp = [SnapshotID |-> 1, Articles |-> <<1>>]
  /\ ai = 1
  /\ cp = NewCommentPage
  /\ c = NoComment
  /\ rows = <<>>
  /\ replyTo = <<>>
  /\ now = Interval
  /\ limiter = [next |-> ((Interval \div Throttle) + 1) * Throttle,
                buf |-> IF Interval >= Throttle THEN 1 ELSE 0]
  /\ ticker = [next |-> 2 * Interval, buf |-> 0]
  /\ fetchTimes = <<>>
  /\ halted = FALSE

\* the comments loop alone, from ScanInit: the thread reconstruction on
\* comment pages of every shape
NextScan ==
  \/ AdvanceWaiting(Interval + MaxFetches * Throttle)
  \/ Recv
  \/ ArticlesDone
  \/ AwaitLimiter
  \/ FetchComments
  \/ StoreComment(MaxComments, MaxOffset, ScanHeads)
  \/ StoreSelfEdge
  \/ Thread
  \/ CommentsDone
  \/ CommentFatal

SpecScan == ScanInit /\ [][NextScan]_vars

\* ScanInit is a state of Poll: TLC finds this violated under Spec when the
\* bounds of Spec allow two articles
ScanInitUnreached == ~ScanInit

(* ------------------- reading the closure table ------------------------- *)
\* the ids of the threads rows that satisfy Test
EdgeIds(Test(_)) == {k \in 1..Len(db_threads) : Test(db_threads[k])}

\* the (ancestor, depth) pairs stored for descendant d
AncPairs(d) ==
  {<<db_threads[k].ancestor, db_threads[k].depth>> :
     k \in EdgeIds(LAMBDA t : t.descendant = d)}

\* the ancestors stored for descendant d at depth n
AncAt(d, n) == {q[1] : q \in {r \in AncPairs(d) : r[2] = n}}

\* the number of threads rows with descendant d
EdgeCount(d) == Cardinality(EdgeIds(LAMBDA t : t.descendant = d))

\* every pair of a set of (ancestor, depth) pairs one level further down
Deeper(pairs) == {<<q[1], q[2] + 1>> : q \in pairs}

\* the indentation widths of the rows handed over so far
Offsets == [i \in 1..Len(rows) |-> rows[i].offset]

\* the rows handed over so far whose head holds exactly two links
WellFormed(i) == rows[i].links = HeadLinks

\* every row handed over has been processed to the end of its Each step
RowsProcessed == Len(cp.Comments) = Len(rows)

\* the store id of the comment made from the i-th row of the page
IdOf(i) == cp.Comments[i].ID

\* the index of the nearest row before i that satisfies Ok and has a
\* strictly smaller offset, 0 when there is none
NearestSmaller(i, Ok(_)) ==
  LET S == {j \in 1..(i - 1) : Ok(j) /\ rows[j].offset < rows[i].offset}
  IN IF S = {} THEN 0 ELSE CHOOSE j \in S : \A k \in S : k <= j

(* ------------------------------ claims --------------------------------- *)
\* C1: scanning well-formed rows in order, the depth-1 ancestor of every
\* comment is the nearest preceding comment with a strictly smaller offset,
\* and a comment without one is a root whose only edge is its self-edge;
\* offsets [0,2,1,2] give comment 4 the ancestors {4, 3, 1}, [0,1,2] give
\* one chain and [0,0,0] give three roots.
C1_ParentIsNearestSmaller ==
  (RowsProcessed /\ \A i \in 1..Len(rows) : WellFormed(i)) =>
    /\ \A i \in 1..Len(rows) :
         LET j == NearestSmaller(i, LAMBDA k : TRUE) IN
         IF j = 0
         THEN AncPairs(IdOf(i)) = {<<IdOf(i), 0>>} /\ EdgeCount(IdOf(i)) = 1
         ELSE AncAt(IdOf(i), 1) = {IdOf(j)}
    /\ Offsets = <<0, 2, 1, 2>> =>
         AncPairs(IdOf(4)) = {<<IdOf(4), 0>>, <<IdOf(3), 1>>, <<IdOf(1), 2>>}
    /\ Offsets = <<0, 1, 2>> =>
         AncPairs(IdOf(3)) = {<<IdOf(3), 0>>, <<IdOf(2), 1>>, <<IdOf(1), 2>>}
    /\ Offsets = <<0, 0, 0>> =>
         \A i \in 1..3 : AncPairs(IdOf(i)) = {<<IdOf(i), 0>>}

\* the rows [0,2,1,2], all well-formed, have been scanned
C1_Witness ==
  /\ RowsProcessed
  /\ Offsets = <<0, 2, 1, 2>>
  /\ \A i \in 1..Len(rows) : WellFormed(i)
  /\ AncAt(IdOf(4), 1) = {IdOf(3)}

\* C2: closure completeness: for every processed comment d with a parent p
\* the pairs stored for d are (d,0) and every pair of p one level deeper,
\* with no row twice; so every edge {a,d,k}, k > 0, has {a,p,k-1}.
C2_ClosureComplete ==
  \A d \in 1..Len(replyTo) :
    replyTo[d] # 0 =>
      /\ AncPairs(d) = {<<d, 0>>} \cup Deeper(AncPairs(replyTo[d]))
      /\ EdgeCount(d) = 1 + EdgeCount(replyTo[d])
      /\ \A q \in AncPairs(d) :
           q[2] > 0 => <<q[1], q[2] - 1>> \in AncPairs(replyTo[d])

\* a comment whose parent has a parent has been processed
C2_Witness ==
  \E d \in 1..Len(replyTo) :
    /\ replyTo[d] # 0
    /\ replyTo[replyTo[d]] # 0
    /\ Cardinality(AncPairs(d)) = 3

\* C3: self-edge totality: outside the two inserts of Comment.store, every
\* row of comments has exactly one threads row with ancestor = descendant =
\* its id and depth 0, whatever articles and snapshots were processed.
C3_SelfEdgeTotality ==
  pc["main"] # "selfedge" =>
    \A id \in 1..Len(db_comments) :
      Cardinality(EdgeIds(LAMBDA t : t.ancestor = id /\ t.descendant = id
                                      /\ t.depth = 0)) = 1

\* comments of two articles of two snapshots are stored and the loop waits
\* for the next snapshot
C3_Witness ==
  /\ pc["main"] = "recv"
  /\ fp.SnapshotID = 2
  /\ \E i, j \in 1..Len(db_comments) :
       db_comments[i].article_id # db_comments[j].article_id
  /\ Len(db_threads) > Len(db_comments)

\* the pairs C4 expects for the comment of row i: itself, and the pairs of
\* the nearest well-formed preceding row with a smaller offset, one deeper
RECURSIVE RefPairs(_)
RefPairs(i) ==
  LET j == NearestSmaller(i, WellFormed) IN
  {<<IdOf(i), 0>>} \cup (IF j = 0 THEN {} ELSE Deeper(RefPairs(j)))

\* C4: malformed-row resilience: a row whose head does not hold exactly two
\* links is skipped: its comment is on no edge and not on the path stack,
\* and every other comment has the edges it would have without that row.
C4_MalformedRowSkipped ==
  RowsProcessed =>
    \A i \in 1..Len(rows) :
      IF WellFormed(i)
      THEN AncPairs(IdOf(i)) = RefPairs(i)
      ELSE /\ EdgeIds(LAMBDA t : t.ancestor = IdOf(i) \/ t.descendant = IdOf(i)) = {}
           /\ \A k \in 1..Len(cp.thread) : cp.thread[k].ID # IdOf(i)

\* the ids of the rows of hackernews.comments
CommentIds == 1..Len(db_comments)

\* the threads relation is a forest
ValidForest ==
  /\ \A k \in 1..Len(db_threads) :
       db_threads[k].ancestor \in CommentIds /\ db_threads[k].descendant \in CommentIds
  /\ \A k1, k2 \in 1..Len(db_threads) :
       (/\ db_threads[k1].ancestor = db_threads[k2].ancestor
        /\ db_threads[k1].descendant = db_threads[k2].descendant) => k1 = k2
  /\ \A k1, k2 \in 1..Len(db_threads) :
       (/\ db_threads[k1].descendant = db_threads[k2].descendant
        /\ db_threads[k1].depth = db_threads[k2].depth
        /\ db_threads[k1].depth >= 1) =>
         db_threads[k1].ancestor = db_threads[k2].ancestor
  /\ \A k1, k2 \in 1..Len(db_threads) :
       (/\ db_threads[k1].ancestor # db_threads[k1].descendant
        /\ db_threads[k1].ancestor = db_threads[k2].descendant) =>
         db_threads[k1].descendant # db_threads[k2].ancestor
  /\ \A d \in CommentIds :
       /\ {q[2] : q \in AncPairs(d)} = 0..(EdgeCount(d) - 1)
       /\ \A r \in AncAt(d, EdgeCount(d) - 1) : AncPairs(r) = {<<r, 0>>}

\* a step removes and changes no threads row
AppendOnly ==
  /\ Len(db_threads') >= Len(db_threads)
  /\ SubSeq(db_threads', 1, Len(db_threads)) = db_threads

\* C5: in every reachable state threads is a valid forest: at most one edge
\* per (ancestor, descendant), at most one ancestor per depth >= 1, no two
\* comments ancestors of each other, depths 0..n each once up to a single
\* root; and no step removes or changes an edge.
C5_ValidForest == []ValidForest /\ [][AppendOnly]_vars

\* two roots and a chain of three comments are stored
C5_Witness ==
  /\ \E d \in CommentIds : EdgeCount(d) = 3
  /\ \E x, y \in 1..Len(replyTo) : x # y /\ replyTo[x] = 0 /\ replyTo[y] = 0
  /\ ValidForest

\* no state holds a part of a child's reply edges
NoPartialBatch ==
  \A d \in CommentIds :
    AncPairs(d) \ {<<d, 0>>} # {} =>
      /\ d <= Len(replyTo)
      /\ replyTo[d] # 0
      /\ AncPairs(d) = {<<d, 0>>} \cup Deeper(AncPairs(replyTo[d]))

\* the step that runs addReply adds, after the rows already there, one row
\* {a, child, n+1} per row {a, parent, n}, and as many rows as the parent has
ReplyBatch ==
  pc["main"] = "thread" =>
    LET added == SubSeq(db_threads', Len(db_threads) + 1, Len(db_threads'))
        d == cp'.depth
    IN /\ SubSeq(db_threads', 1, Len(db_threads)) = db_threads
       /\ IF pc'["main"] = "row" /\ d > 1
          THEN LET parent == cp'.thread[d - 1].ID
                   child == cp'.thread[d].ID
                   src == EdgeIds(LAMBDA t : t.descendant = parent)
               IN /\ Len(added) = Cardinality(src)
                  /\ Len(added) > 0
                  /\ {added[k] : k \in 1..Len(added)} =
                       {[ancestor |-> db_threads[k].ancestor, descendant |-> child,
                         depth |-> db_threads[k].depth + 1] : k \in src}
          ELSE added = <<>>

\* C6: addReply is all-or-nothing: it adds one edge {a, child, d+1} for every
\* edge {a, parent, d} in one step, no state holds some but not all reply
\* edges of a child, and the number of edges added is the number of ancestor
\* edges of the parent.
C6_ReplyAllOrNothing == []NoPartialBatch /\ [][ReplyBatch]_vars

\* addReply has just added a batch of two rows for the comment on top of a
\* path stack of three
C6_Witness ==
  /\ pc["main"] = "row"
  /\ cp.depth = 3
  /\ EdgeCount(cp.thread[3].ID) = 3
  /\ Len(db_threads) = 6

\* a step leaves a sender blocked on the full channel where it is, and
\* changes the channel only by a send into the free slot or by the comments
\* loop receiving the oldest snapshot
Backpressure ==
  /\ \A p \in Procs :
       (pc[p] = "fp_send" /\ Len(snapshots) = 1) => pc'[p] = "fp_send"
  /\ snapshots' # snapshots =>
       \/ /\ Len(snapshots) = 0
          /\ \E p \in Procs :
               pc[p] = "fp_send" /\ pc'[p] # "fp_send" /\ snapshots' = <<f[p]>>
       \/ /\ pc["main"] = "recv"
          /\ snapshots' = Tail(snapshots)
          /\ fp' = Head(snapshots)

\* C7: scheduler backpressure: the channel holds at most one snapshot, the
\* first send finds it empty and completes, a second send made before the
\* comments loop has received stays blocked until it receives, and no
\* queued snapshot is overwritten or dropped.
C7_Backpressure ==
  /\ [](Len(snapshots) <= 1 /\ (pc["main"] = "fp_send" => Len(snapshots) = 0))
  /\ [][Backpressure]_vars

\* the second snapshot is complete and its send blocked while the first is
\* still in the channel and the comments loop has received nothing
C7_Witness ==
  /\ pc["poller"] = "fp_send"
  /\ f["poller"].SnapshotID = 2
  /\ snapshots = <<f["main"]>>
  /\ fp = NewFP

\* C8: the next snapshot is not taken (its row stored, its front page parsed)
\* before the comments loop has received the previous one, so at most one
\* captured snapshot waits for its comment processing to start.
C8_OneSnapshotInFlight ==
  /\ \A p \in Procs :
       pc[p] \in {"fp_fetch", "fp_parse", "fp_send"} =>
         f[p].SnapshotID <= fp.SnapshotID + 1
  /\ Len(snapshots) + Cardinality({p \in Procs : pc[p] = "fp_send"}) <= 1

\* C9: rate-limit adherence: any N fetches, the first to the last, take at
\* least (N-1) * Throttle.
C9_RateLimit ==
  \A i, j \in 1..Len(fetchTimes) :
    i < j => fetchTimes[j] - fetchTimes[i] >= (j - i) * Throttle

\* C10: an article whose group has a title row and no subtext row is dropped:
\* it is not in FrontPage.Articles and no articles row is inserted for it.
\* (An article with a title has had a title row; an article is appended to
\* FrontPage.Articles at its subtext row, so one that is not listed has had
\* none.)
C10_IncompleteArticleDropped ==
  \A p \in Procs : \A k \in 1..Len(heap) :
    (/\ heap[k].SnapshotID = f[p].SnapshotID
     /\ heap[k].Title # ""
     /\ \A i \in 1..Len(f[p].Articles) : f[p].Articles[i] # k) =>
      heap[k].ID = 0

(* ------------------------- the front page ------------------------------ *)
\* the positions of FrontPage.Articles of goroutine p that hold the article
\* stored as articles row k
ListedAs(p, k) ==
  {i \in 1..Len(f[p].Articles) : heap[f[p].Articles[i]].ID = k}

\* C11: when FrontPage.parse returns, every articles row it inserted is in
\* FrontPage.Articles exactly once, and FrontPage.Articles holds the articles
\* in the order they were met (the order FrontPage.next made them).
C11_PersistedListedOnce ==
  \A p \in Procs :
    pc[p] = "fp_send" =>
      /\ \A k \in 1..Len(db_articles) :
           db_articles[k].snapshot_id = f[p].SnapshotID =>
             Cardinality(ListedAs(p, k)) = 1
      /\ \A i, j \in 1..Len(f[p].Articles) :
           i < j => f[p].Articles[i] < f[p].Articles[j]

(* ---------------------------- failures --------------------------------- *)
\* C12: a store failure (a failed insert of Comment.store, Comment.addReply,
\* Article.store or FrontPage.store) never ends the process: the loops of
\* Poll keep running after it.  Between the two inserts of Comment.store and
\* at the call of addReply a store failure is all that can end the process.
C12_StoreFailureSurvived ==
  pc["main"] \in {"selfedge", "thread"} => ~halted

(* -------------------------- comment ids -------------------------------- *)
\* C13: the comment_id stored for a well-formed row is the site's id found
\* in the permalink of the row's head, and it is not the store-assigned id
\* used in threads.
C13_SiteIdPersisted ==
  (/\ pc["main"] = "selfedge"
   /\ WellFormed(Len(rows))
   /\ ~parseCommentHead(rows[Len(rows)]).err) =>
    /\ db_comments[c.ID].comment_id = Atoi(SplitEq(rows[Len(rows)].href)[2]).n
    /\ db_comments[c.ID].comment_id # c.ID

(* -------------------------- the path stack ----------------------------- *)
\* the path stack is the root-to-leaf path of the comment processed last
PathStack ==
  LET n == Len(cp.thread)
      top == cp.thread[n]
  IN /\ cp.depth = n
     /\ n >= 1
     /\ top = cp.Comments[Len(cp.Comments)]
     /\ top.offset = rows[Len(rows)].offset
     /\ \A i \in 1..(n - 1) : cp.thread[i].offset < cp.thread[i + 1].offset
     /\ \A i \in 1..n : AncAt(top.ID, n - i) = {cp.thread[i].ID}
     /\ EdgeCount(top.ID) = n

\* C14: path-stack invariant: after each comment row is processed, cp.thread
\* has strictly increasing offsets from bottom to top, its top is the comment
\* just processed, cp.depth is its length and the entry at (0-based) index i
\* is the stored ancestor of the top at depth length-1-i, and these are all
\* the ancestors of the top.
C14_PathStack ==
  (RowsProcessed /\ Len(rows) > 0) => PathStack

\* the rows [0, 1, 2, 1] have been scanned: the stack grew to three entries
\* and was cut back to two
C14_Witness ==
  /\ RowsProcessed
  /\ Offsets = <<0, 1, 2, 1>>
  /\ cp.depth = 2
  /\ cp.thread[1] = cp.Comments[1]
  /\ cp.thread[2] = cp.Comments[4]

(* ------------------------- partial failure ----------------------------- *)
\* the store id of the comment the scan makes d a reply to, 0 for a root:
\* the one addReply was called on, or, for the comment whose Each step was
\* cut short, the entry the stack holds below it
ParentOf(d) ==
  IF d <= Len(replyTo) THEN replyTo[d]
  ELSE LET th == Pushed(cp.thread, cp.depth, c) IN
       IF Len(th) > 1 THEN th[Len(th) - 1].ID ELSE 0

\* C15: after a store failure at any step of a scan (comment insert,
\* self-edge insert, reply-edge batch) the rows left in comments and threads
\* satisfy self-edge totality and closure completeness: every comment has its
\* self-edge and, when it has a parent, all its ancestor edges.
C15_PartialFailureConsistent ==
  halted =>
    \A d \in CommentIds :
      /\ Cardinality(EdgeIds(LAMBDA t : t.ancestor = d /\ t.descendant = d
                                        /\ t.depth = 0)) = 1
      /\ ParentOf(d) # 0 =>
           AncPairs(d) = {<<d, 0>>} \cup Deeper(AncPairs(ParentOf(d)))

(* ---------------------- the call of addReply --------------------------- *)
\* the entry of the stack below the comment being processed
StackParent ==
  LET th == Pushed(cp.thread, cp.depth, c) IN
  IF Len(th) > 1 THEN th[Len(th) - 1].ID ELSE 0

\* At every call of addReply the parent has a row in threads: Comment.store
\* inserted its self-edge, or ended the process, before it was pushed on the
\* stack.  The INSERT ... SELECT of addReply therefore never comes back
\* without a row, and the sql.ErrNoRows branch of Thread is never taken.
ParentHasRows ==
  (pc["main"] = "thread" /\ StackParent # 0) => EdgeCount(StackParent) >= 1

(* ----------------------- threads and articles -------------------------- *)
\* the article and the snapshot a stored comment belongs to
ArticleOf(id) == db_comments[id].article_id
SnapshotOf(id) == db_articles[ArticleOf(id)].snapshot_id

\* C17: threads never cross articles: a scan starts with an empty path
\* stack, the first comment stored for an article is a root, and every
\* threads row joins two comments of the same article and snapshot.
C17_ThreadsWithinArticle ==
  /\ (pc["main"] = "row" /\ rows = <<>>) => cp = NewCommentPage
  /\ \A d \in 1..Len(replyTo) :
       (\A e \in 1..(d - 1) : ArticleOf(e) # ArticleOf(d)) =>
          replyTo[d] = 0 /\ AncPairs(d) = {<<d, 0>>}
  /\ \A k \in 1..Len(db_threads) :
       /\ ArticleOf(db_threads[k].ancestor) = ArticleOf(db_threads[k].descendant)
       /\ SnapshotOf(db_threads[k].ancestor) = SnapshotOf(db_threads[k].descendant)

\* two articles of two snapshots have been scanned, each has a reply, and
\* the first comment of the second article came with a larger offset than
\* the root of the first
C17_Witness ==
  /\ Len(replyTo) = 4
  /\ ArticleOf(1) = 1 /\ ArticleOf(2) = 1 /\ ArticleOf(3) = 2 /\ ArticleOf(4) = 2
  /\ SnapshotOf(1) # SnapshotOf(3)
  /\ replyTo = <<0, 1, 0, 3>>
  /\ Offsets = <<1, 2>>
  /\ RowsProcessed

(* ------------------------ articles handed over ------------------------- *)
\* every article of the list arts carries the id of an articles row, and no
\* article is in the list twice
StoredOnce(arts) ==
  /\ \A k \in 1..Len(arts) : ArticleExists(heap[arts[k]].ID)
  /\ \A j, k \in 1..Len(arts) : j # k => arts[j] # arts[k]

\* C18: every article handed to the comments loop has been persisted: each
\* element of FrontPage.Articles of a snapshot sent on the channel carries a
\* store-assigned ID (Article.store ran on it), also when the last group of
\* the page has no spacer row after it, and none is listed twice.
C18_HandedArticlesPersisted ==
  /\ \A i \in 1..Len(snapshots) : StoredOnce(snapshots[i].Articles)
  /\ StoredOnce(fp.Articles)

(* --------------------------- progress ---------------------------------- *)
\* the goroutines waiting on a tick channel that holds no tick: the comments
\* loop in <-limiter, the snapshot goroutine in range time.Tick(interval)
Blocked ==
  {p \in Procs :
     IF p = "main"
     THEN pc[p] = "next" /\ ai <= Len(fp.Articles) /\ limiter.buf = 0
     ELSE pc[p] = "wait" /\ ticker.buf = 0}

\* instants enough for every wait of a run: one interval per snapshot and one
\* throttle period per listed article
LiveTime == MaxSnapshots * (Interval + MaxListed * Throttle)

\* time passes while a goroutine waits for its tick
AdvanceBlocked(maxTime) ==
  /\ Blocked # {}
  /\ Advance(maxTime)

\* the steps of one snapshot producer: NewFrontPage in goroutine p and, for
\* the snapshot goroutine, its ticker
ProducerStep(p) ==
  \/ FPStore(p, MaxSnapshots)
  \/ FPFetch(p)
  \/ RowSpacer(p, MaxArticles)
  \/ RowSubtext(p, MaxListed)
  \/ FPDone(p)
  \/ FPSend(p)
  \/ (p = "poller" /\ PollerStart)
  \/ (p = "poller" /\ PollerTick)

\* the steps of the comments loop (the consumer) and of main before it
ConsumerStep ==
  \/ Go
  \/ NewLimiter
  \/ Recv
  \/ ArticlesDone
  \/ AwaitLimiter
  \/ FetchComments
  \/ StoreComment(MaxStored, MaxIndent, Heads)
  \/ StoreSelfEdge
  \/ Thread
  \/ CommentsDone

\* Poll as in SpecSched, with the clock moving only for a waiting goroutine
NextLive ==
  \/ \E p \in Procs : FPStore(p, MaxSnapshots)
  \/ \E p \in Procs : FPFetch(p)
  \/ \E p \in Procs : RowSpacer(p, MaxArticles)
  \/ \E p \in Procs : RowSubtext(p, MaxListed)
  \/ \E p \in Procs : FPDone(p)
  \/ \E p \in Procs : FPSend(p)
  \/ Go
  \/ NewLimiter
  \/ PollerStart
  \/ PollerTick
  \/ AdvanceBlocked(LiveTime)
  \/ Recv
  \/ ArticlesDone
  \/ AwaitLimiter
  \/ FetchComments
  \/ StoreComment(MaxStored, MaxIndent, Heads)
  \/ StoreSelfEdge
  \/ Thread
  \/ CommentsDone

\* the Go scheduler runs every goroutine that can take a step, and the
\* runtime's timers keep firing
Fairness ==
  /\ \A p \in Procs : WF_vars(ProducerStep(p))
  /\ WF_vars(ConsumerStep)
  /\ WF_vars(AdvanceBlocked(LiveTime))

SpecLive == Init /\ [][NextLive]_vars /\ Fairness

\* the comments loop takes snapshots from the head of the channel and walks
\* the articles of a snapshot one after the other
InOrder ==
  /\ fp' # fp =>
       Len(snapshots) > 0 /\ fp' = Head(snapshots) /\ snapshots' = Tail(snapshots)
  /\ ai' # ai => ai' = (IF pc["main"] = "recv" THEN 1 ELSE ai + 1)

\* C19: pipeline progress: every snapshot placed on the channel is eventually
\* received by the comments loop and all its articles are eventually
\* processed, in order; snapshots are consumed in the order they were sent;
\* a producer blocked on the full channel is eventually unblocked.
C19_PipelineProgress ==
  /\ \A s \in 1..MaxSnapshots :
       (\E i \in 1..Len(snapshots) : snapshots[i].SnapshotID = s)
         ~> (fp.SnapshotID = s)
  /\ \A s \in 1..MaxSnapshots :
       (fp.SnapshotID = s /\ pc["main"] = "next")
         ~> (fp.SnapshotID = s /\ pc["main"] = "recv" /\ ai = Len(fp.Articles) + 1)
  /\ \A p \in Procs :
       (pc[p] = "fp_send" /\ Len(snapshots) = ChanCap) ~> (pc[p] # "fp_send")
  /\ [][InOrder]_vars

====
